---- MODULE Spec2Model ----
(***************************************************************************)
(* Status synchronisation and polling of the AllDebrid SDK magnet          *)
(* resource: MagnetResource.status, MagnetResource.statusLive and          *)
(* MagnetResource.watch, driven by a scripted server.                      *)
(* Also: one request of AllDebridClient (SpecTransport), the API key of a  *)
(* command of the adb command line (SpecCli), PinResource.waitForAuth      *)
(* (SpecPin), several live-mode watch loops at once (SpecLoops), the      *)
(* repeated runs of `adb magnet status --live` (SpecLive) and the          *)
(* `adb magnet watch` command (SpecWatchCmd).                              *)
(*                                                                         *)
(* JavaScript values are tagged records: [kind |-> "undefined"],           *)
(* [kind |-> "number", val |-> n], magnet objects, arrays and the          *)
(* response data object.  A field that is absent reads as Undefined.       *)
(***************************************************************************)
EXTENDS Integers, Sequences, FiniteSets

VARIABLES
  pc,         \* position of the one caller: idle, status_await, status_done,
              \* watch_await, watch_sleep, watch_done
  outcome,    \* None, or how the call ended: [kind |-> "return" | "throw", ...]
  callId,     \* the id argument of the running call
  options,    \* the WatchOptions object passed to watch (fields may be omitted)
  attempt,    \* watch: let attempt
  session,    \* watch: let session
  counter,    \* watch: let counter
  sent,       \* bodies posted to /magnet/status, in order
  raw,        \* the data returned by the last post
  responses,  \* watch: the values of `status`, one per completed poll
  updates,    \* the arguments onUpdate was invoked with, in order
  raised,     \* None, or the error the last post raised
  cancelled,  \* the caller's external stop signal has been raised
  tx,         \* one call of AllDebridClient.get / post / postFormData
  cli,        \* one run of the adb command line and the saved config
  pin,        \* one call of PinResource.waitForAuth
  loops,      \* the variables of each of several concurrent watch calls
  liveCmd     \* the runs of `adb --json magnet status --live` from one shell

vars == <<pc, outcome, callId, options, attempt, session, counter, sent, raw,
          responses, updates, raised, cancelled, tx, cli, pin, loops, liveCmd>>

\* the variables of the magnet resource calls
magnetVars == <<pc, outcome, callId, options, attempt, session, counter, sent,
                raw, responses, updates, raised, cancelled>>

----------------------------------------------------------------------------
(* Bounds of the model *)

MaxPolls == 3     \* polls explored for an unbounded watch (maxAttempts = 0)
MaxBudget == 2    \* largest maxAttempts value passed to watch
MaxJobs == 2      \* longest magnets list the scripted server answers with

----------------------------------------------------------------------------
(* JavaScript values *)

Undefined == [kind |-> "undefined"]
Omitted == Undefined
None == [kind |-> "none"]

Num(n) == [kind |-> "number", val |-> n]
Str(s) == [kind |-> "string", val |-> s]
Bool(b) == [kind |-> "boolean", val |-> b]
Arr(s) == [kind |-> "array", items |-> s]
Magnet(i, s) == [kind |-> "object", id |-> i, status |-> s]
Data(m, c) == [kind |-> "data", magnets |-> m, counter |-> c]

IsArray(v) == v.kind = "array"

\* JavaScript truthiness of the values the model uses
Truthy(v) ==
  CASE v.kind = "undefined" -> FALSE
    [] v.kind = "number" -> v.val # 0
    [] v.kind = "string" -> v.val # ""
    [] v.kind = "boolean" -> v.val
    [] OTHER -> TRUE

Ids == {123, 456}
Statuses == {"Downloading", "Ready"}
SessionValues == {0, 999999}
CounterValues == {1, 2}

SeqsUpTo(S, n) == UNION {[1..k -> S] : k \in 0..n}

MagnetsOf(i) == {Magnet(i, s) : s \in Statuses}

\* every shape of the `magnets` field: absent, bare object, list
MagnetsShapes(i) ==
  {Undefined} \cup MagnetsOf(i) \cup {Arr(s) : s \in SeqsUpTo(MagnetsOf(i), MaxJobs)}

CounterFields == {Undefined} \cup {Num(c) : c \in CounterValues}

\* what the scripted server may answer to a direct status lookup
ServerData(i) ==
  {Undefined} \cup {Data(m, c) : m \in MagnetsShapes(i), c \in CounterFields}

\* what the scripted server answers to the polls of a watch
WatchMagnets(i) ==
  { Undefined,
    Magnet(i, "Ready"),
    Arr(<<>>),
    Arr(<<Magnet(i, "Downloading")>>),
    Arr(<<Magnet(i, "Ready")>>),
    Arr(<<Magnet(i, "Downloading"), Magnet(i, "Ready")>>) }

WatchServerData(i, live) ==
  IF live
    THEN {Data(m, c) : m \in WatchMagnets(i) \ {Undefined}, c \in CounterFields}
    ELSE {Undefined} \cup {Data(m, Undefined) : m \in WatchMagnets(i)}

Return(v) == [kind |-> "return", value |-> v]
Throw(e) == [kind |-> "throw", error |-> e]

----------------------------------------------------------------------------
(* Errors (errors.ts) *)

\* an error code is a string; it is kept as its parts between underscores,
\* so that "AUTH_BAD_APIKEY" is <<"AUTH", "BAD", "APIKEY">>
Code(parts) == [kind |-> "code", parts |-> parts]

\* code.startsWith(prefix + '_')
StartsWith(code, prefix) == Len(code.parts) >= 2 /\ code.parts[1] = prefix

\* an error object that is not one of the SDK's: new Error, a WretchError
\* (which carries the HTTP status), the TypeError of a failed fetch
JsError(name, message, status) ==
  [ kind |-> "error", name |-> name, code |-> Undefined, message |-> message,
    status |-> status, statusCode |-> Undefined, isAllDebridError |-> FALSE ]

\* new AllDebridError(code, message) and its subclasses, which set this.name
SdkError(name, code, message) ==
  [ kind |-> "error", name |-> name, code |-> code, message |-> message,
    status |-> Undefined, statusCode |-> Undefined, isAllDebridError |-> TRUE ]

NetworkError(message, statusCode) ==
  [ SdkError("NetworkError", Code(<<"NETWORK", "ERROR">>), message)
      EXCEPT !.statusCode = statusCode ]

\* variant: the DELAYED_ prefix is missing from the link error test
createTypedError_NoDelayed(code, message) ==
  IF StartsWith(code, "AUTH") THEN SdkError("AuthenticationError", code, message)
  ELSE IF \/ StartsWith(code, "LINK")
          \/ StartsWith(code, "REDIRECTOR")
          \/ StartsWith(code, "STREAM")
    THEN SdkError("LinkError", code, message)
  ELSE IF StartsWith(code, "MAGNET") THEN SdkError("MagnetError", code, message)
  ELSE SdkError("AllDebridError", code, message)

createTypedError(code, message) ==
  IF StartsWith(code, "AUTH") THEN SdkError("AuthenticationError", code, message)
  ELSE IF \/ StartsWith(code, "LINK")
          \/ StartsWith(code, "REDIRECTOR")
          \/ StartsWith(code, "STREAM")
          \/ StartsWith(code, "DELAYED")
    THEN SdkError("LinkError", code, message)
  ELSE IF StartsWith(code, "MAGNET") THEN SdkError("MagnetError", code, message)
  ELSE SdkError("AllDebridError", code, message)

----------------------------------------------------------------------------
(* AllDebridClient (client.ts) *)

DEFAULT_MAX_RETRIES == 3

\* what the awaited wretch chain settles with: the parsed envelope, or an
\* error object
Json(status, data, error) ==
  [kind |-> "json", status |-> status, data |-> data, error |-> error]
ApiError(code, message) == [kind |-> "object", code |-> code, message |-> message]

ApiCodes ==
  { Code(<<"AUTH", "BAD", "APIKEY">>),
    Code(<<"LINK", "HOST", "NOT", "SUPPORTED">>),
    Code(<<"REDIRECTOR", "NOT", "SUPPORTED">>),
    Code(<<"STREAM", "INVALID", "GEN", "ID">>),
    Code(<<"DELAYED", "INVALID", "ID">>),
    Code(<<"MAGNET", "INVALID", "ID">>),
    Code(<<"MAINTENANCE">>),
    Code(<<"AUTH">>),
    Code(<<"MAGNETS", "LIMIT">>),
    Code(<<"NETWORK", "ERROR">>) }

HttpStatuses == {400, 401, 403, 429, 500}

WireData == {Undefined, Data(Arr(<<>>), Undefined)}

WireEnvelopes ==
  {Json("success", d, Undefined) : d \in WireData}
    \cup {Json("error", Undefined, ApiError(c, "server message")) : c \in ApiCodes}
    \cup {Json("error", d, Undefined) : d \in WireData}

WireErrors ==
  {JsError("WretchError", m, Num(h)) : m \in {"", "http error"}, h \in HttpStatuses}
    \cup {JsError("TypeError", m, Undefined) : m \in {"", "fetch failed"}}

WireOutcomes == WireEnvelopes \cup WireErrors

\* the try block after the await: "Handle error responses", then the data
EnvelopeResult(json) ==
  IF json.status = "error" /\ Truthy(json.error)
    THEN Throw(createTypedError(json.error.code, json.error.message))
    ELSE Return(json.data)

\* variant: the 403 test is missing from the catch block
CatchError_No403(error) ==
  IF error.status = Num(401)
    THEN createTypedError(Code(<<"AUTH", "BAD", "APIKEY">>), "Invalid API key or unauthorized access")
  ELSE IF error.status = Num(429)
    THEN createTypedError(Code(<<"RATE", "LIMITED">>), "Too many requests")
  ELSE IF error.isAllDebridError THEN error
  ELSE NetworkError(IF error.message # "" THEN error.message ELSE "Network error occurred",
                    error.status)

\* variant: an error that is not the SDK's is thrown on as it is
CatchError_NoWrap(error) ==
  IF error.status = Num(401)
    THEN createTypedError(Code(<<"AUTH", "BAD", "APIKEY">>), "Invalid API key or unauthorized access")
  ELSE IF error.status = Num(403)
    THEN createTypedError(Code(<<"AUTH", "BLOCKED">>), "Access forbidden")
  ELSE IF error.status = Num(429)
    THEN createTypedError(Code(<<"RATE", "LIMITED">>), "Too many requests")
  ELSE error

\* the catch block: error is what the try block threw
CatchError(error) ==
  IF error.status = Num(401)
    THEN createTypedError(Code(<<"AUTH", "BAD", "APIKEY">>), "Invalid API key or unauthorized access")
  ELSE IF error.status = Num(403)
    THEN createTypedError(Code(<<"AUTH", "BLOCKED">>), "Access forbidden")
  ELSE IF error.status = Num(429)
    THEN createTypedError(Code(<<"RATE", "LIMITED">>), "Too many requests")
  ELSE IF error.isAllDebridError THEN error
  ELSE NetworkError(IF error.message # "" THEN error.message ELSE "Network error occurred",
                    error.status)

\* try { ... } catch { ... } around one settled request
Settle(w) ==
  LET tried == IF w.kind = "json" THEN EnvelopeResult(w) ELSE Throw(w)
  IN IF tried.kind = "throw" THEN Throw(CatchError(tried.error)) ELSE tried

\* the three request methods handle the settled request alike
ClientGet(w) == Settle(w)
ClientPost(w) == Settle(w)
ClientPostFormData(w) == Settle(w)

Methods == {"get", "post", "postFormData"}

ClientRequest(method, w) ==
  CASE method = "get" -> ClientGet(w)
    [] method = "post" -> ClientPost(w)
    [] method = "postFormData" -> ClientPostFormData(w)

\* AllDebridConfig: the two retry options, each possibly omitted
ConfigSet ==
  [ retry : {Omitted, Bool(TRUE), Bool(FALSE)},
    maxRetries : {Omitted, Num(0), Num(1), Num(2)} ]

\* constructor: merge config with defaults
MergeConfig(c) ==
  [ retry |-> IF c.retry = Omitted THEN Bool(TRUE) ELSE c.retry,
    maxRetries |-> IF c.maxRetries = Omitted THEN Num(DEFAULT_MAX_RETRIES) ELSE c.maxRetries ]

----------------------------------------------------------------------------
(* Errors seen by the magnet resource *)

\* failed posts the scripted server puts the polls through
PollFailures ==
  { JsError("TypeError", "fetch failed", Undefined),
    JsError("WretchError", "http error", Num(401)),
    JsError("WretchError", "http error", Num(429)),
    Json("error", Undefined, ApiError(Code(<<"MAGNET", "INVALID", "ID">>), "server message")) }

\* errors a post can raise
TransportErrors == {ClientPost(w).error : w \in PollFailures}

\* new Error(`Watch timeout: ...`)
WatchTimeout == JsError("Error", "Watch timeout", Undefined)
\* whatever the onUpdate callback throws
ObserverError == JsError("ObserverError", "thrown by onUpdate", Undefined)

----------------------------------------------------------------------------
(* MagnetResource.status and MagnetResource.statusLive *)

StatusBody(i) ==
  [id |-> Num(i), session |-> Undefined, counter |-> Undefined]

\* variant: the counter is left out of the body
StatusLiveBody_NoCounter(o, i) ==
  [id |-> i, session |-> o.session, counter |-> Undefined]

StatusLiveBody(o, i) ==
  [id |-> i, session |-> o.session, counter |-> o.counter]

\* statusList: the filters a caller passes
StatusFilters == {Omitted, Str("active"), Str("ready")}

\* statusList: { status: statusFilter } with a filter, no body without one
StatusListBody(statusFilter) ==
  IF statusFilter # Omitted /\ Truthy(statusFilter)
    THEN [status |-> statusFilter]
    ELSE Undefined

\* statusLive: the options a caller passes
LiveStatusOptions ==
  [ session : {Num(r) : r \in SessionValues},
    counter : {Num(0)} \cup {Num(c) : c \in CounterValues} ]

\* variant: the wrapped result drops the other fields (no ...data spread)
StatusNormalize_NoSpread(data) ==
  IF data # Undefined /\ Truthy(data.magnets) /\ ~IsArray(data.magnets)
    THEN Data(Arr(<<data.magnets>>), Undefined)
    ELSE data

\* variant: the Array.isArray test is missing, lists are wrapped again
StatusNormalize_WrapsLists(data) ==
  IF data # Undefined /\ Truthy(data.magnets)
    THEN [data EXCEPT !.magnets = Arr(<<data.magnets>>)]
    ELSE data

\* variant: the data is returned as the server sent it (the 0.2.0 behaviour)
StatusNormalize_Identity(data) == data

\* the part of status(id) after the post has returned `data`
StatusNormalize(data) ==
  IF data # Undefined /\ Truthy(data.magnets) /\ ~IsArray(data.magnets)
    THEN [data EXCEPT !.magnets = Arr(<<data.magnets>>)]
    ELSE data

----------------------------------------------------------------------------
(* MagnetResource.watch *)

WatchOptionsSet ==
  [ maxAttempts : {Omitted} \cup {Num(n) : n \in (-1)..MaxBudget},
    stopOnStatus : {Omitted, Str("Downloading")},
    useLiveMode : {Omitted, Bool(TRUE)},
    onUpdate : BOOLEAN ]

\* destructuring defaults
OptMaxAttempts(o) == IF o.maxAttempts = Omitted THEN 0 ELSE o.maxAttempts.val
OptStopOnStatus(o) == IF o.stopOnStatus = Omitted THEN "Ready" ELSE o.stopOnStatus.val
OptUseLiveMode(o) == IF o.useLiveMode = Omitted THEN FALSE ELSE o.useLiveMode.val

\* variant: the last job of the list is inspected instead of the first
FirstMagnet_Last(st) ==
  IF st = Undefined THEN Undefined
  ELSE IF st.magnets.kind = "array" /\ Len(st.magnets.items) >= 1
    THEN st.magnets.items[Len(st.magnets.items)]
    ELSE Undefined

\* status?.magnets?.[0]
FirstMagnet(st) ==
  IF st = Undefined THEN Undefined
  ELSE IF st.magnets.kind = "array" /\ Len(st.magnets.items) >= 1
    THEN st.magnets.items[1]
    ELSE Undefined

\* variant: a response without a first job counts as a match
ReachedStop_MissingStops(st, stop) ==
  FirstMagnet(st) = Undefined \/ FirstMagnet(st).status = stop

\* magnet?.status === stopOnStatus
ReachedStop(st, stop) ==
  FirstMagnet(st) # Undefined /\ FirstMagnet(st).status = stop

LiveBranch(o, sess) == OptUseLiveMode(o) /\ sess # Undefined

\* variant: session and counter are passed in each other's place
PollBody_Swapped(o, i, sess, ctr) ==
  IF LiveBranch(o, sess)
    THEN StatusLiveBody([session |-> Num(ctr), counter |-> Num(sess.val)], Num(i))
    ELSE StatusBody(i)

\* the body the next poll posts
PollBody(o, i, sess, ctr) ==
  IF LiveBranch(o, sess)
    THEN StatusLiveBody([session |-> Num(sess.val), counter |-> Num(ctr)], Num(i))
    ELSE StatusBody(i)

\* let session: chosen once, before the loop
WatchSession(o, r) == IF OptUseLiveMode(o) THEN Num(r) ELSE Undefined

\* the value of `status`: statusLive returns the post's data as it is
PollStatus(o, sess, d) == IF LiveBranch(o, sess) THEN d ELSE StatusNormalize(d)

\* update counter for next live mode call
NextCounter(o, st, ctr) ==
  IF OptUseLiveMode(o) /\ st # Undefined /\ st.counter # Undefined
    THEN st.counter.val
    ELSE ctr

\* onUpdate?.(status)
NotifyObserver(o, ups, st) == IF o.onUpdate THEN Append(ups, st) ELSE ups

\* variant: the error is swallowed and the loop waits for its next attempt
WatchRejected_Retry(e) ==
  /\ pc' = "watch_sleep"
  /\ outcome' = None

\* an error of the awaited poll leaves watch as it is
WatchRejected(e) ==
  /\ pc' = "watch_done"
  /\ outcome' = Throw(e)

\* variant: the while test is off by one (attempt <= maxAttempts)
WatchLoop_OffByOne(o, i, sess, ctr) ==
  IF OptMaxAttempts(o) = 0 \/ attempt <= OptMaxAttempts(o)
    THEN /\ attempt' = attempt + 1
         /\ sent' = Append(sent, PollBody(o, i, sess, ctr))
         /\ pc' = "watch_await"
         /\ outcome' = None
    ELSE /\ attempt' = attempt
         /\ sent' = sent
         /\ pc' = "watch_done"
         /\ outcome' = Throw(WatchTimeout)

\* variant: both branches of the mode choice are started before one is awaited
WatchLoop_BothBranches(o, i, sess, ctr) ==
  IF OptMaxAttempts(o) = 0 \/ attempt < OptMaxAttempts(o)
    THEN /\ attempt' = attempt + 1
         /\ sent' = Append(Append(sent, PollBody(o, i, sess, ctr)), StatusBody(i))
         /\ pc' = "watch_await"
         /\ outcome' = None
    ELSE /\ attempt' = attempt
         /\ sent' = sent
         /\ pc' = "watch_done"
         /\ outcome' = Throw(WatchTimeout)

\* variant: the `maxAttempts === 0 ||` disjunct is missing
WatchLoop_NoUnbounded(o, i, sess, ctr) ==
  IF attempt < OptMaxAttempts(o)
    THEN /\ attempt' = attempt + 1
         /\ sent' = Append(sent, PollBody(o, i, sess, ctr))
         /\ pc' = "watch_await"
         /\ outcome' = None
    ELSE /\ attempt' = attempt
         /\ sent' = sent
         /\ pc' = "watch_done"
         /\ outcome' = Throw(WatchTimeout)

\* the while test, attempt++ and the start of the next poll; or the throw
WatchLoop(o, i, sess, ctr) ==
  IF OptMaxAttempts(o) = 0 \/ attempt < OptMaxAttempts(o)
    THEN /\ attempt' = attempt + 1
         /\ sent' = Append(sent, PollBody(o, i, sess, ctr))
         /\ pc' = "watch_await"
         /\ outcome' = None
    ELSE /\ attempt' = attempt
         /\ sent' = sent
         /\ pc' = "watch_done"
         /\ outcome' = Throw(WatchTimeout)

----------------------------------------------------------------------------
(* State machine *)

InitMagnet ==
  /\ pc = "idle"
  /\ outcome = None
  /\ callId = 0
  /\ options = None
  /\ attempt = 0
  /\ session = Undefined
  /\ counter = 0
  /\ sent = <<>>
  /\ raw = None
  /\ responses = <<>>
  /\ updates = <<>>
  /\ raised = None
  /\ cancelled = FALSE

\* the shell prompt: no adb process runs; the config file holds `saved`;
\* `before` is the config file as the next process finds it, `last` the
\* process that ended last
CliShell(saved) ==
  [ pc |-> "shell", flag |-> Undefined, json |-> FALSE, env |-> Undefined,
    command |-> "", saved |-> saved, jsonMode |-> FALSE, outcome |-> None,
    before |-> saved, last |-> None ]

\* the callers that may each run a watch
LoopIds == {1, 2}

\* a caller that has not called watch: attempt = 0, counter = 0, no session
LoopIdle ==
  [ pc |-> "idle", id |-> 0, options |-> None, session |-> Undefined,
    counter |-> 0, attempt |-> 0, body |-> None, heard |-> Undefined,
    outcome |-> None ]

\* no run of the live status command yet
LiveIdle ==
  [ pc |-> "shell", args |-> [session |-> Undefined, counter |-> Undefined],
    chained |-> FALSE, prev |-> None, body |-> None, result |-> None,
    printed |-> None ]

PinDefaultTimeout == 600000
PinDefaultInterval == 3000

\* waitForAuth has not been called
PinIdle ==
  [ pc |-> "idle", timeout |-> PinDefaultTimeout, interval |-> PinDefaultInterval,
    elapsed |-> 0, checks |-> 0, last |-> None, raised |-> None, outcome |-> None ]

\* a transport call that has not started, on a client built with config c
TxIdle(c) ==
  [ pc |-> "idle", config |-> MergeConfig(c), method |-> "", requests |-> 0,
    wire |-> None, outcome |-> None ]

Init ==
  /\ InitMagnet
  /\ tx = TxIdle([retry |-> Omitted, maxRetries |-> Omitted])
  /\ cli = CliShell(Undefined)
  /\ pin = PinIdle
  /\ loops = [l \in LoopIds |-> LoopIdle]
  /\ liveCmd = LiveIdle

\* client.magnet.status(id), up to the await of the post
StatusCall ==
  /\ pc = "idle"
  /\ \E i \in Ids :
       /\ callId' = i
       /\ sent' = Append(sent, StatusBody(i))
  /\ pc' = "status_await"
  /\ UNCHANGED <<outcome, options, attempt, session, counter, raw, responses,
                 updates, raised, cancelled>>
  /\ UNCHANGED <<tx, cli, pin, loops, liveCmd>>

\* the post returns data; status normalizes and returns
StatusResolve ==
  /\ pc = "status_await"
  /\ \E d \in ServerData(callId) :
       /\ raw' = d
       /\ outcome' = Return(StatusNormalize(d))
  /\ pc' = "status_done"
  /\ UNCHANGED <<callId, options, attempt, session, counter, sent, responses,
                 updates, raised, cancelled>>
  /\ UNCHANGED <<tx, cli, pin, loops, liveCmd>>

\* variant: a failed post is sent again instead of leaving status
StatusReject_Retry ==
  /\ pc = "status_await"
  /\ \E e \in TransportErrors :
       /\ raised' = e
       /\ sent' = Append(sent, StatusBody(callId))
       /\ \/ pc' = "status_await" /\ outcome' = outcome
          \/ pc' = "status_done" /\ outcome' = Throw(e)
  /\ Len(sent) < MaxPolls
  /\ UNCHANGED <<callId, options, attempt, session, counter, raw,
                 responses, updates, cancelled>>
  /\ UNCHANGED <<tx, cli, pin, loops, liveCmd>>

\* the post raises; status does not catch
StatusReject ==
  /\ pc = "status_await"
  /\ \E e \in TransportErrors :
       /\ raised' = e
       /\ outcome' = Throw(e)
  /\ pc' = "status_done"
  /\ UNCHANGED <<callId, options, attempt, session, counter, sent, raw,
                 responses, updates, cancelled>>
  /\ UNCHANGED <<tx, cli, pin, loops, liveCmd>>

\* client.magnet.statusList(statusFilter), up to the post it returns
StatusListCall ==
  /\ pc = "idle"
  /\ \E f \in StatusFilters : sent' = Append(sent, StatusListBody(f))
  /\ pc' = "list_await"
  /\ UNCHANGED <<outcome, callId, options, attempt, session, counter, raw,
                 responses, updates, raised, cancelled>>
  /\ UNCHANGED <<tx, cli, pin, loops, liveCmd>>

\* client.magnet.statusLive(options, id), up to the post it returns
StatusLiveCall ==
  /\ pc = "idle"
  /\ \E o \in LiveStatusOptions, i \in {Undefined} \cup {Num(n) : n \in Ids} :
       sent' = Append(sent, StatusLiveBody(o, i))
  /\ pc' = "live_await"
  /\ UNCHANGED <<outcome, callId, options, attempt, session, counter, raw,
                 responses, updates, raised, cancelled>>
  /\ UNCHANGED <<tx, cli, pin, loops, liveCmd>>

\* statusList / statusLive return the post's promise: its data is the result
StatusPassResolve ==
  /\ pc \in {"list_await", "live_await"}
  /\ \E i \in Ids : \E d \in ServerData(i) :
       /\ raw' = d
       /\ outcome' = Return(d)
  /\ pc' = IF pc = "list_await" THEN "list_done" ELSE "live_done"
  /\ UNCHANGED <<callId, options, attempt, session, counter, sent, responses,
                 updates, raised, cancelled>>
  /\ UNCHANGED <<tx, cli, pin, loops, liveCmd>>

\* statusList / statusLive return the post's promise: its error is theirs
StatusPassReject ==
  /\ pc \in {"list_await", "live_await"}
  /\ \E e \in TransportErrors :
       /\ raised' = e
       /\ outcome' = Throw(e)
  /\ pc' = IF pc = "list_await" THEN "list_done" ELSE "live_done"
  /\ UNCHANGED <<callId, options, attempt, session, counter, sent, raw,
                 responses, updates, cancelled>>
  /\ UNCHANGED <<tx, cli, pin, loops, liveCmd>>

\* client.magnet.watch(id, options), up to its first await
WatchCall ==
  /\ pc = "idle"
  /\ \E i \in Ids, o \in WatchOptionsSet, r \in SessionValues :
       LET sess == WatchSession(o, r)
       IN /\ callId' = i
          /\ options' = o
          /\ session' = sess
          /\ counter' = 0
          /\ WatchLoop(o, i, sess, 0)
  /\ UNCHANGED <<raw, responses, updates, raised, cancelled>>
  /\ UNCHANGED <<tx, cli, pin, loops, liveCmd>>

\* variant: onUpdate runs before the counter update, which a raise skips
WatchPollResolve_CounterAfter ==
  /\ pc = "watch_await"
  /\ \E d \in WatchServerData(callId, OptUseLiveMode(options)), obsThrows \in BOOLEAN :
       LET st == PollStatus(options, session, d)
       IN /\ raw' = d
          /\ responses' = Append(responses, st)
          /\ counter' = IF obsThrows THEN counter ELSE NextCounter(options, st, counter)
          /\ updates' = NotifyObserver(options, updates, st)
          /\ obsThrows => options.onUpdate
          /\ IF obsThrows
               THEN /\ pc' = "watch_done"
                    /\ outcome' = Throw(ObserverError)
               ELSE IF ReachedStop(st, OptStopOnStatus(options))
                 THEN /\ pc' = "watch_done"
                      /\ outcome' = Return(st)
                 ELSE /\ pc' = "watch_sleep"
                      /\ outcome' = None
  /\ UNCHANGED <<callId, options, attempt, session, sent, raised, cancelled>>
  /\ UNCHANGED <<tx, cli, pin, loops, liveCmd>>

\* the awaited poll returns: counter update, onUpdate, stop test, then
\* either return or the start of the wait
WatchPollResolve ==
  /\ pc = "watch_await"
  /\ \E d \in WatchServerData(callId, OptUseLiveMode(options)), obsThrows \in BOOLEAN :
       LET st == PollStatus(options, session, d)
       IN /\ raw' = d
          /\ responses' = Append(responses, st)
          /\ counter' = NextCounter(options, st, counter)
          /\ updates' = NotifyObserver(options, updates, st)
          /\ obsThrows => options.onUpdate
          /\ IF obsThrows
               THEN /\ pc' = "watch_done"
                    /\ outcome' = Throw(ObserverError)
               ELSE IF ReachedStop(st, OptStopOnStatus(options))
                 THEN /\ pc' = "watch_done"
                      /\ outcome' = Return(st)
                 ELSE /\ pc' = "watch_sleep"
                      /\ outcome' = None
  /\ UNCHANGED <<callId, options, attempt, session, sent, raised, cancelled>>
  /\ UNCHANGED <<tx, cli, pin, loops, liveCmd>>

\* the awaited poll raises: watch has no try/catch, the error leaves it
WatchPollReject ==
  /\ pc = "watch_await"
  /\ \E e \in TransportErrors :
       /\ raised' = e
       /\ WatchRejected(e)
  /\ UNCHANGED <<callId, options, attempt, session, counter, sent, raw,
                 responses, updates, cancelled>>
  /\ UNCHANGED <<tx, cli, pin, loops, liveCmd>>

\* the setTimeout promise resolves: back to the while test
WatchSleepElapsed ==
  /\ pc = "watch_sleep"
  /\ OptMaxAttempts(options) = 0 => attempt < MaxPolls
  /\ WatchLoop(options, callId, session, counter)
  /\ UNCHANGED <<callId, options, session, counter, raw, responses, updates,
                 raised, cancelled>>
  /\ UNCHANGED <<tx, cli, pin, loops, liveCmd>>

\* the caller raises its stop signal; WatchOptions has no field to pass it
Cancel ==
  /\ pc \in {"watch_await", "watch_sleep"}
  /\ ~cancelled
  /\ cancelled' = TRUE
  /\ UNCHANGED <<pc, outcome, callId, options, attempt, session, counter, sent,
                 raw, responses, updates, raised>>
  /\ UNCHANGED <<tx, cli, pin, loops, liveCmd>>

Next ==
  \/ StatusCall
  \/ StatusResolve
  \/ StatusReject
  \/ StatusListCall
  \/ StatusLiveCall
  \/ StatusPassResolve
  \/ StatusPassReject
  \/ WatchCall
  \/ WatchPollResolve
  \/ WatchPollReject
  \/ WatchSleepElapsed
  \/ Cancel

Spec == Init /\ [][Next]_vars

----------------------------------------------------------------------------
(* One transport call on a client of any configuration *)

InitTransport ==
  /\ InitMagnet
  /\ \E c \in ConfigSet : tx = TxIdle(c)
  /\ cli = CliShell(Undefined)
  /\ pin = PinIdle
  /\ loops = [l \in LoopIds |-> LoopIdle]
  /\ liveCmd = LiveIdle

\* get / post / postFormData up to the await: one request leaves
TxCall ==
  /\ tx.pc = "idle"
  /\ \E m \in Methods :
       tx' = [tx EXCEPT !.pc = "await", !.method = m, !.requests = @ + 1]
  /\ UNCHANGED <<magnetVars, cli, pin, loops, liveCmd>>

\* the awaited chain settles; the method returns the data or throws
TxSettle ==
  /\ tx.pc = "await"
  /\ \E w \in WireOutcomes :
       tx' = [tx EXCEPT !.pc = "done", !.wire = w,
                        !.outcome = ClientRequest(tx.method, w)]
  /\ UNCHANGED <<magnetVars, cli, pin, loops, liveCmd>>

NextTransport ==
  \/ TxCall
  \/ TxSettle

SpecTransport == InitTransport /\ [][NextTransport]_vars

----------------------------------------------------------------------------
(* The adb command line: where a command's API key comes from *)

\* --api-key <key> on the command line
FlagValues == {Undefined, Str("flag-key")}
\* process.env.ALLDEBRID_API_KEY: unset, set to nothing, set to a key
EnvValues == {Undefined, Str(""), Str("env-key")}
\* the apiKey entry of the config file
SavedValues == {Undefined, Str("saved-key"), Str("pin-key")}

\* the commands that build their client with createClient()
ClientCommands == {"user info", "magnet status"}
Commands == ClientCommands \cup {"auth login", "auth logout", "auth status"}

\* a || b
Or(a, b) == IF Truthy(a) THEN a ELSE b

\* variant: the environment variable is not consulted
ConfigGetApiKey_StoreOnly(env, store) == store

\* Config.getApiKey: env var, then config file
ConfigGetApiKey(env, store) == Or(env, store)

\* Config.hasApiKey
ConfigHasApiKey(env, store) == Truthy(ConfigGetApiKey(env, store))

NoApiKeyFound == JsError("Error", "No API key found", Undefined)

\* the AllDebridClient a command works with
CliClient(apiKey) == [kind |-> "client", apiKey |-> apiKey, agent |-> "@adbjs/cli"]

\* variant: the config file is consulted before the environment
createClient_SavedFirst(apiKeyOverride, env, store) ==
  LET apiKey == Or(apiKeyOverride, Or(store, env))
  IN IF ~Truthy(apiKey) THEN Throw(NoApiKeyFound) ELSE Return(CliClient(apiKey))

\* createClient(apiKeyOverride?)
createClient(apiKeyOverride, env, store) ==
  LET apiKey == Or(apiKeyOverride, ConfigGetApiKey(env, store))
  IN IF ~Truthy(apiKey) THEN Throw(NoApiKeyFound) ELSE Return(CliClient(apiKey))

InitCli ==
  /\ InitMagnet
  /\ tx = TxIdle([retry |-> Omitted, maxRetries |-> Omitted])
  /\ \E s \in SavedValues : cli = CliShell(s)
  /\ pin = PinIdle
  /\ loops = [l \in LoopIds |-> LoopIdle]
  /\ liveCmd = LiveIdle

\* the shell starts adb: program.parse() reads the options and the command
CliParse ==
  /\ cli.pc = "shell"
  /\ \E f \in FlagValues, j \in BOOLEAN, e \in EnvValues, c \in Commands :
       cli' = [CliShell(cli.saved) EXCEPT !.pc = "parsed", !.flag = f, !.json = j,
                                          !.env = e, !.command = c,
                                          !.last = cli.last]
  /\ UNCHANGED <<magnetVars, tx, pin, loops, liveCmd>>

\* the preAction hook: of the global options it reads json only
CliPreAction ==
  /\ cli.pc = "parsed"
  /\ cli' = [cli EXCEPT !.pc = "action", !.jsonMode = cli.json]
  /\ UNCHANGED <<magnetVars, tx, pin, loops, liveCmd>>

\* a command's first statement: const client = createClient()
CliCreateClient ==
  /\ cli.pc = "action"
  /\ cli.command \in ClientCommands
  /\ cli' = [cli EXCEPT !.pc = "exited",
                        !.outcome = createClient(Undefined, cli.env, cli.saved)]
  /\ UNCHANGED <<magnetVars, tx, pin, loops, liveCmd>>

\* what authLogin rethrows: an error of a request, no PIN data, the timeout
LoginErrors ==
  TransportErrors \cup
  { JsError("Error", "PIN generation failed", Undefined),
    JsError("Error", "PIN authorization timeout", Undefined) }

\* authLogin, once waitForAuth has returned the key: config.setApiKey(apikey)
CliAuthLogin ==
  /\ cli.pc = "action"
  /\ cli.command = "auth login"
  /\ cli' = [cli EXCEPT !.pc = "exited", !.saved = Str("pin-key"),
                        !.outcome = Return(Str("Authentication successful"))]
  /\ UNCHANGED <<magnetVars, tx, pin, loops, liveCmd>>

\* authLogin, when pin.generate or waitForAuth throws: the error is rethrown
CliAuthLoginFails ==
  /\ cli.pc = "action"
  /\ cli.command = "auth login"
  /\ \E e \in LoginErrors :
       cli' = [cli EXCEPT !.pc = "exited", !.outcome = Throw(e)]
  /\ UNCHANGED <<magnetVars, tx, pin, loops, liveCmd>>

\* authLogin / authLogout with a key present: the confirm prompt is declined
CliAuthCancelled ==
  /\ cli.pc = "action"
  /\ cli.command \in {"auth login", "auth logout"}
  /\ ConfigHasApiKey(cli.env, cli.saved)
  /\ cli' = [cli EXCEPT !.pc = "exited", !.outcome = Return(Str("cancelled"))]
  /\ UNCHANGED <<magnetVars, tx, pin, loops, liveCmd>>

\* authLogout: nothing to do without a key; else, confirmed, clearApiKey()
CliAuthLogout ==
  /\ cli.pc = "action"
  /\ cli.command = "auth logout"
  /\ cli' = IF ConfigHasApiKey(cli.env, cli.saved)
              THEN [cli EXCEPT !.pc = "exited", !.saved = Undefined,
                               !.outcome = Return(Str("Successfully logged out"))]
              ELSE [cli EXCEPT !.pc = "exited",
                               !.outcome = Return(Str("You are not authenticated"))]
  /\ UNCHANGED <<magnetVars, tx, pin, loops, liveCmd>>

\* authStatus: 'Not authenticated' without a key, else the key is verified
CliAuthStatus ==
  /\ cli.pc = "action"
  /\ cli.command = "auth status"
  /\ cli' = [cli EXCEPT !.pc = "exited",
                        !.outcome = IF ~Truthy(ConfigGetApiKey(cli.env, cli.saved))
                                      THEN Return(Str("Not authenticated"))
                                      ELSE Return(Str("Authenticated"))]
  /\ UNCHANGED <<magnetVars, tx, pin, loops, liveCmd>>

\* the process has ended: back at the prompt, the config file stays
CliExit ==
  /\ cli.pc = "exited"
  /\ cli' = [CliShell(cli.saved) EXCEPT
               !.last = [command |-> cli.command, env |-> cli.env,
                         outcome |-> cli.outcome]]
  /\ UNCHANGED <<magnetVars, tx, pin, loops, liveCmd>>

NextCli ==
  \/ CliParse
  \/ CliPreAction
  \/ CliCreateClient
  \/ CliAuthLogin
  \/ CliAuthLoginFails
  \/ CliAuthCancelled
  \/ CliAuthLogout
  \/ CliAuthStatus
  \/ CliExit

SpecCli == InitCli /\ [][NextCli]_vars

----------------------------------------------------------------------------
(* PinResource.waitForAuth; times are milliseconds *)

\* delays the model explores: of a check's round trip, of a timer firing late
Latencies == {0, 1000}

PinOptionsSet ==
  [ timeout : {Omitted, Num(0), Num(5000)},
    interval : {Omitted, Num(2000)} ]

\* const timeout = options.timeout ?? 600000
OptTimeout(o) == IF o.timeout = Omitted THEN PinDefaultTimeout ELSE o.timeout.val

\* const interval = options.interval ?? 3000
OptInterval(o) == IF o.interval = Omitted THEN PinDefaultInterval ELSE o.interval.val

\* what /pin/check answers
PinCheck(activated, apikey) == [kind |-> "pin", activated |-> activated, apikey |-> apikey]

PinCheckData ==
  { Undefined,
    PinCheck(Bool(FALSE), Undefined),
    PinCheck(Bool(TRUE), Undefined),
    PinCheck(Bool(TRUE), Str("")),
    PinCheck(Bool(TRUE), Str("pin-key")) }

\* errors a check raises: PinResource.check is one client.get
PinCheckErrors == {ClientGet(w).error : w \in PollFailures}

PinTimeoutError ==
  JsError("Error", "PIN authorization timeout - user did not authorize within the time limit",
          Undefined)

\* result?.activated && result?.apikey
Authorized(result) ==
  /\ result # Undefined
  /\ Truthy(result.activated)
  /\ Truthy(result.apikey)

\* variant: the loop runs while the elapsed time is at most the timeout
WaitLoop_Inclusive(p) ==
  IF p.elapsed <= p.timeout
    THEN [p EXCEPT !.pc = "await", !.checks = @ + 1]
    ELSE [p EXCEPT !.pc = "done", !.outcome = Throw(PinTimeoutError)]

\* the while test: the next check leaves, or the timeout error is thrown
WaitLoop(p) ==
  IF p.elapsed < p.timeout
    THEN [p EXCEPT !.pc = "await", !.checks = @ + 1]
    ELSE [p EXCEPT !.pc = "done", !.outcome = Throw(PinTimeoutError)]

InitPin ==
  /\ InitMagnet
  /\ tx = TxIdle([retry |-> Omitted, maxRetries |-> Omitted])
  /\ cli = CliShell(Undefined)
  /\ pin = PinIdle
  /\ loops = [l \in LoopIds |-> LoopIdle]
  /\ liveCmd = LiveIdle

\* client.pin.waitForAuth(check, pin, options), up to its first await
WaitForAuthCall ==
  /\ pin.pc = "idle"
  /\ \E o \in PinOptionsSet :
       pin' = WaitLoop([PinIdle EXCEPT !.timeout = OptTimeout(o),
                                       !.interval = OptInterval(o)])
  /\ UNCHANGED <<magnetVars, tx, cli, loops, liveCmd>>

\* the awaited check returns: the key is returned, or the wait starts
PinCheckResolve ==
  /\ pin.pc = "await"
  /\ \E result \in PinCheckData, l \in Latencies :
       pin' = IF Authorized(result)
                THEN [pin EXCEPT !.pc = "done", !.elapsed = @ + l, !.last = result,
                                 !.outcome = Return(result.apikey)]
                ELSE [pin EXCEPT !.pc = "sleep", !.elapsed = @ + l, !.last = result]
  /\ UNCHANGED <<magnetVars, tx, cli, loops, liveCmd>>

\* the awaited check raises: waitForAuth has no try/catch
PinCheckReject ==
  /\ pin.pc = "await"
  /\ \E e \in PinCheckErrors, l \in Latencies :
       pin' = [pin EXCEPT !.pc = "done", !.elapsed = @ + l, !.raised = e,
                          !.outcome = Throw(e)]
  /\ UNCHANGED <<magnetVars, tx, cli, loops, liveCmd>>

\* the setTimeout promise resolves, no earlier than interval: the while test
PinSleepElapsed ==
  /\ pin.pc = "sleep"
  /\ \E l \in Latencies :
       pin' = WaitLoop([pin EXCEPT !.elapsed = @ + pin.interval + l])
  /\ UNCHANGED <<magnetVars, tx, cli, loops, liveCmd>>

NextPin ==
  \/ WaitForAuthCall
  \/ PinCheckResolve
  \/ PinCheckReject
  \/ PinSleepElapsed

SpecPin == InitPin /\ [][NextPin]_vars

----------------------------------------------------------------------------
(* Several watch loops in live mode at the same time *)

\* the options the concurrent loops are started with
LoopOptionsSet ==
  { o \in WatchOptionsSet :
      /\ OptUseLiveMode(o)
      /\ ~o.onUpdate
      /\ o.stopOnStatus = Omitted
      /\ o.maxAttempts \in {Omitted, Num(MaxBudget)} }

\* the while test of one loop, on that loop's own variables
LoopTest(w) ==
  IF OptMaxAttempts(w.options) = 0 \/ w.attempt < OptMaxAttempts(w.options)
    THEN [w EXCEPT !.pc = "await", !.attempt = @ + 1,
                   !.body = PollBody(w.options, w.id, w.session, w.counter)]
    ELSE [w EXCEPT !.pc = "done", !.outcome = Throw(WatchTimeout)]

InitLoops ==
  /\ InitMagnet
  /\ tx = TxIdle([retry |-> Omitted, maxRetries |-> Omitted])
  /\ cli = CliShell(Undefined)
  /\ pin = PinIdle
  /\ loops = [l \in LoopIds |-> LoopIdle]
  /\ liveCmd = LiveIdle

\* some caller starts watch(id, {useLiveMode: true, ...}): session is drawn
LoopStart ==
  /\ \E l \in LoopIds, i \in Ids, o \in LoopOptionsSet, r \in SessionValues :
       /\ loops[l].pc = "idle"
       /\ loops' = [loops EXCEPT ![l] =
            LoopTest([LoopIdle EXCEPT !.id = i, !.options = o,
                                      !.session = WatchSession(o, r)])]
  /\ UNCHANGED <<magnetVars, tx, cli, pin, liveCmd>>

\* a loop's awaited poll returns
LoopPollResolve ==
  /\ \E l \in LoopIds :
       /\ loops[l].pc = "await"
       /\ \E d \in WatchServerData(loops[l].id, TRUE) :
            LET w == loops[l]
                st == PollStatus(w.options, w.session, d)
                ctr == NextCounter(w.options, st, w.counter)
            IN loops' = [loops EXCEPT ![l] =
                 IF ReachedStop(st, OptStopOnStatus(w.options))
                   THEN [w EXCEPT !.pc = "done", !.counter = ctr, !.heard = st.counter,
                                  !.outcome = Return(st)]
                   ELSE [w EXCEPT !.pc = "sleep", !.counter = ctr, !.heard = st.counter]]
  /\ UNCHANGED <<magnetVars, tx, cli, pin, liveCmd>>

\* a loop's awaited poll raises
LoopPollReject ==
  /\ \E l \in LoopIds, e \in TransportErrors :
       /\ loops[l].pc = "await"
       /\ loops' = [loops EXCEPT ![l].pc = "done", ![l].outcome = Throw(e)]
  /\ UNCHANGED <<magnetVars, tx, cli, pin, liveCmd>>

\* a loop's wait ends: its while test
LoopSleepElapsed ==
  /\ \E l \in LoopIds :
       /\ loops[l].pc = "sleep"
       /\ OptMaxAttempts(loops[l].options) = 0 => loops[l].attempt < MaxPolls
       /\ loops' = [loops EXCEPT ![l] = LoopTest(loops[l])]
  /\ UNCHANGED <<magnetVars, tx, cli, pin, liveCmd>>

NextLoops ==
  \/ LoopStart
  \/ LoopPollResolve
  \/ LoopPollReject
  \/ LoopSleepElapsed

SpecLoops == InitLoops /\ [][NextLoops]_vars

----------------------------------------------------------------------------
(* adb --json magnet status --live, run again and again from a shell *)

\* the text of a command-line argument or of a printed number: its digits
Text(chars) == [kind |-> "text", chars |-> chars]

RECURSIVE Digits(_)
Digits(n) == IF n < 10 THEN <<n>> ELSE Append(Digits(n \div 10), n % 10)

\* JSON.stringify of a number, read back by the shell
DecimalText(n) == Text(Digits(n))

RECURSIVE DigitsValue(_)
DigitsValue(chars) ==
  IF chars = <<>> THEN 0
  ELSE 10 * DigitsValue(SubSeq(chars, 1, Len(chars) - 1)) + chars[Len(chars)]

\* Number.parseInt of an argument made of digits
ParseInt(t) == DigitsValue(t.chars)

\* variant: the option is tested as a number, so that 0 counts as not given
OptNumber_ZeroAbsent(arg) ==
  IF arg # Undefined /\ ParseInt(arg) # 0 THEN Num(ParseInt(arg)) ELSE Undefined

\* options.x ? Number.parseInt(options.x) : undefined
OptNumber(arg) ==
  IF arg # Undefined /\ arg.chars # <<>> THEN Num(ParseInt(arg)) ELSE Undefined

\* a ?? b
Nullish(a, b) == IF a = Undefined THEN b ELSE a

\* what the server answers to statusLive({ session, counter })
LiveServerData ==
  {Undefined} \cup
  { Data(m, c) : m \in {Undefined, Arr(<<>>), Arr(<<Magnet(123, "Downloading")>>)},
                 c \in CounterFields }

\* !result?.magnets || result.magnets.length === 0
NoMagnets(result) ==
  \/ result = Undefined
  \/ ~Truthy(result.magnets)
  \/ result.magnets.kind = "array" /\ result.magnets.items = <<>>

\* variant: the counter that was sent is printed
LiveOutput_SentCounter(result, sess, ctr) ==
  [ magnets |-> IF NoMagnets(result) THEN Arr(<<>>) ELSE result.magnets,
    session |-> sess, counter |-> ctr ]

\* the object handed to output(): JSON.stringify leaves out undefined fields
LiveOutput(result, sess, ctr) ==
  IF NoMagnets(result)
    THEN [ magnets |-> Arr(<<>>), session |-> sess,
           counter |-> IF result = Undefined THEN ctr ELSE Nullish(result.counter, ctr) ]
    ELSE [ magnets |-> result.magnets, session |-> sess, counter |-> result.counter ]

\* the arguments of an invocation: --session and --counter, each optional
FreshArgs ==
  { [session |-> s, counter |-> c] :
      s \in {Undefined} \cup {Num(n) : n \in SessionValues},
      c \in {Undefined, Num(0)} \cup {Num(n) : n \in CounterValues} }

ArgText(v) == IF v = Undefined THEN Undefined ELSE DecimalText(v.val)

InitLive ==
  /\ InitMagnet
  /\ tx = TxIdle([retry |-> Omitted, maxRetries |-> Omitted])
  /\ cli = CliShell(Undefined)
  /\ pin = PinIdle
  /\ loops = [l \in LoopIds |-> LoopIdle]
  /\ liveCmd = LiveIdle

\* magnetStatus(undefined, opts) up to the await of statusLive
LiveStart(args, chained, r) ==
  LET sess == Nullish(OptNumber(ArgText(args.session)), Num(r))
      ctr == Nullish(OptNumber(ArgText(args.counter)), Num(0))
  IN liveCmd' = [liveCmd EXCEPT
        !.pc = "await", !.args = args, !.chained = chained,
        !.prev = IF liveCmd.pc = "printed"
                   THEN [kind |-> "run", body |-> liveCmd.body, result |-> liveCmd.result]
                   ELSE None,
        !.body = StatusLiveBody([session |-> sess, counter |-> ctr], Undefined),
        !.result = None, !.printed = None]

\* the shell runs the command with arguments of the user's choosing
LiveInvoke ==
  /\ liveCmd.pc # "await"
  /\ \E args \in FreshArgs, r \in SessionValues :
       LiveStart(args, FALSE, r)
  /\ UNCHANGED <<magnetVars, tx, cli, pin, loops>>

\* the shell runs the command with the session and counter printed last
LiveInvokeChained ==
  /\ liveCmd.pc = "printed"
  /\ liveCmd.printed.counter # Undefined
  /\ \E r \in SessionValues :
       LiveStart([session |-> liveCmd.printed.session, counter |-> liveCmd.printed.counter],
                 TRUE, r)
  /\ UNCHANGED <<magnetVars, tx, cli, pin, loops>>

\* statusLive returns: the result is printed, the process exits 0
LiveResolve ==
  /\ liveCmd.pc = "await"
  /\ \E result \in LiveServerData :
       liveCmd' = [liveCmd EXCEPT !.pc = "printed", !.result = result,
                            !.printed = LiveOutput(result, liveCmd.body.session,
                                                   liveCmd.body.counter)]
  /\ UNCHANGED <<magnetVars, tx, cli, pin, loops>>

\* statusLive raises: { error } is printed, process.exit(1)
LiveReject ==
  /\ liveCmd.pc = "await"
  /\ liveCmd' = [liveCmd EXCEPT !.pc = "failed"]
  /\ UNCHANGED <<magnetVars, tx, cli, pin, loops>>

NextLive ==
  \/ LiveInvoke
  \/ LiveInvokeChained
  \/ LiveResolve
  \/ LiveReject

SpecLive == InitLive /\ [][NextLive]_vars

----------------------------------------------------------------------------
(* adb magnet watch <id>: the command line on top of MagnetResource.watch *)

\* a job as the command reads it: status and statusCode
CmdJob(i, s, c) == [kind |-> "object", id |-> i, status |-> s, statusCode |-> c]

CmdJobs(i) ==
  { CmdJob(i, "Downloading", 1), CmdJob(i, "Ready", 4),
    CmdJob(i, "Error", 7), CmdJob(i, "Expired", 11) }

\* what the server answers to a poll of the command
CmdServerData(i) ==
  {Undefined, Data(Arr(<<>>), Undefined)}
    \cup {Data(j, Undefined) : j \in CmdJobs(i)}
    \cup {Data(Arr(<<j>>), Undefined) : j \in CmdJobs(i)}

\* the options magnetWatch passes to watch
CmdWatchOptions ==
  [ maxAttempts |-> Num(0), stopOnStatus |-> Str(""), useLiveMode |-> Omitted,
    onUpdate |-> TRUE ]

\* process.exit(code), or the end of the action
Exit(code) == [kind |-> "exit", code |-> code]

\* variant: the callback also ends the command for an expired job
CmdOnUpdate_ExpiredExits(st) ==
  IF st = Undefined \/ ~Truthy(st.magnets) \/ ~IsArray(st.magnets) THEN None
  ELSE IF st.magnets.items = <<>> THEN None
  ELSE LET magnet == st.magnets.items[1]
       IN IF magnet.status = "Ready" \/ magnet.statusCode = 4 THEN Exit(0)
          ELSE IF magnet.status \in {"Error", "Expired"} THEN Exit(1)
          ELSE None

\* the onUpdate callback of magnetWatch: None when it returns, else the exit
CmdOnUpdate(st) ==
  IF st = Undefined \/ ~Truthy(st.magnets) \/ ~IsArray(st.magnets) THEN None
  ELSE IF st.magnets.items = <<>> THEN None
  ELSE LET magnet == st.magnets.items[1]
       IN IF magnet.status = "Ready" \/ magnet.statusCode = 4 THEN Exit(0)
          ELSE IF magnet.status = "Error" THEN Exit(1)
          ELSE None

InitWatchCmd ==
  /\ InitMagnet
  /\ tx = TxIdle([retry |-> Omitted, maxRetries |-> Omitted])
  /\ cli = CliShell(Undefined)
  /\ pin = PinIdle
  /\ loops = [l \in LoopIds |-> LoopIdle]
  /\ liveCmd = LiveIdle

\* magnetWatch(id) up to the first await of watch
CmdWatchCall ==
  /\ pc = "idle"
  /\ \E i \in Ids :
       /\ callId' = i
       /\ options' = CmdWatchOptions
       /\ session' = WatchSession(CmdWatchOptions, 0)
       /\ counter' = 0
       /\ WatchLoop(CmdWatchOptions, i, WatchSession(CmdWatchOptions, 0), 0)
  /\ UNCHANGED <<raw, responses, updates, raised, cancelled>>
  /\ UNCHANGED <<tx, cli, pin, loops, liveCmd>>

\* the awaited poll returns: the callback runs, then watch's stop test
CmdPollResolve ==
  /\ pc = "watch_await"
  /\ \E d \in CmdServerData(callId) :
       LET st == PollStatus(options, session, d)
       IN /\ raw' = d
          /\ responses' = Append(responses, st)
          /\ counter' = NextCounter(options, st, counter)
          /\ updates' = NotifyObserver(options, updates, st)
          /\ IF CmdOnUpdate(st) # None
               THEN /\ pc' = "exited"
                    /\ outcome' = CmdOnUpdate(st)
               ELSE IF ReachedStop(st, OptStopOnStatus(options))
                 THEN /\ pc' = "exited"
                      /\ outcome' = Exit(0)
                 ELSE /\ pc' = "watch_sleep"
                      /\ outcome' = None
  /\ UNCHANGED <<callId, options, attempt, session, sent, raised, cancelled>>
  /\ UNCHANGED <<tx, cli, pin, loops, liveCmd>>

\* the awaited poll raises: watch rethrows, magnetWatch's catch exits 1
CmdPollReject ==
  /\ pc = "watch_await"
  /\ \E e \in TransportErrors : raised' = e
  /\ pc' = "exited"
  /\ outcome' = Exit(1)
  /\ UNCHANGED <<callId, options, attempt, session, counter, sent, raw,
                 responses, updates, cancelled>>
  /\ UNCHANGED <<tx, cli, pin, loops, liveCmd>>

\* the setTimeout promise resolves: the while test of watch
CmdSleepElapsed ==
  /\ pc = "watch_sleep"
  /\ attempt < MaxPolls
  /\ WatchLoop(options, callId, session, counter)
  /\ UNCHANGED <<callId, options, session, counter, raw, responses, updates,
                 raised, cancelled>>
  /\ UNCHANGED <<tx, cli, pin, loops, liveCmd>>

NextWatchCmd ==
  \/ CmdWatchCall
  \/ CmdPollResolve
  \/ CmdPollReject
  \/ CmdSleepElapsed

SpecWatchCmd == InitWatchCmd /\ [][NextWatchCmd]_vars

----------------------------------------------------------------------------
(* Vocabulary of the properties, stated on the recorded history *)

Watching == pc \in {"watch_await", "watch_sleep", "watch_done"}
LiveWatch == Watching /\ options.useLiveMode = Bool(TRUE)

\* the target status of the running watch ("Ready" unless one was given)
Target == IF options.stopOnStatus = Omitted THEN "Ready" ELSE options.stopOnStatus.val

\* the response st has a job list whose first job has status s
FirstJobHas(st, s) ==
  /\ st.kind = "data"
  /\ st.magnets.kind = "array"
  /\ st.magnets.items # <<>>
  /\ Head(st.magnets.items).status = s

NoTargetIn(rs) == \A k \in 1..Len(rs) : ~FirstJobHas(rs[k], Target)

ObserverRaised == outcome = Throw(ObserverError)

----------------------------------------------------------------------------
(* Polling engine *)

\* C1: when the N-th response is the first whose first job has the target
\* status (and the observer did not raise), watch has issued exactly N polls,
\* has called onUpdate once per response in the order received, the terminal
\* one included, and has returned the N-th response itself; and watch returns
\* in no other case.
C1_ResolvesOnNthPoll ==
  (Watching /\ ~ObserverRaised) =>
    LET N == Len(responses) IN
      /\ (N >= 1 /\ FirstJobHas(responses[N], Target)) =>
            /\ pc = "watch_done"
            /\ outcome = Return(responses[N])
            /\ Len(sent) = N
            /\ options.onUpdate => updates = responses
            /\ NoTargetIn(SubSeq(responses, 1, N - 1))
      /\ outcome.kind = "return" => (N >= 1 /\ FirstJobHas(responses[N], Target))

C1_Witness ==
  /\ Watching
  /\ outcome.kind = "return"
  /\ Len(sent) = 2
  /\ options.onUpdate
  /\ Len(updates) = 2
  /\ ~FirstJobHas(responses[1], Target)

\* C2: with maxAttempts = M >= 1 watch never issues more than M polls; when it
\* fails with the timeout error it has issued exactly M polls, received M
\* non-target responses and called onUpdate M times; and after M non-target
\* responses nothing but the timeout error can follow.
C2_TimeoutAfterExactlyM ==
  (Watching /\ options.maxAttempts # Omitted /\ options.maxAttempts.val >= 1) =>
    LET M == options.maxAttempts.val IN
      /\ Len(sent) <= M
      /\ outcome = Throw(WatchTimeout) =>
            /\ Len(sent) = M
            /\ Len(responses) = M
            /\ NoTargetIn(responses)
            /\ options.onUpdate => Len(updates) = M
      /\ (Len(responses) = M /\ NoTargetIn(responses) /\ ~ObserverRaised) =>
            \/ pc = "watch_sleep"
            \/ outcome = Throw(WatchTimeout)

C2_Witness ==
  /\ Watching
  /\ outcome = Throw(WatchTimeout)
  /\ options.maxAttempts = Num(2)
  /\ Len(sent) = 2
  /\ options.onUpdate
  /\ Len(updates) = 2

\* C3: once a poll has raised an error, in standard and in live mode, watch
\* has failed with that very error, onUpdate has been called for the earlier
\* responses only, and the failed poll stays the last one issued.
C3_PollErrorPropagates ==
  (Watching /\ raised # None) =>
    /\ pc = "watch_done"
    /\ outcome = Throw(raised)
    /\ Len(sent) = Len(responses) + 1
    /\ options.onUpdate => Len(updates) = Len(sent) - 1

C3_Witness ==
  /\ LiveWatch
  /\ raised \in TransportErrors
  /\ Len(sent) = 2
  /\ options.onUpdate
  /\ Len(updates) = 1

\* C4: in a live-mode watch the counter sent with poll k+1 is the counter
\* field of the response to poll k, whatever that response contains (an
\* absent field reads as undefined).
C4_CounterFollowsResponse ==
  LiveWatch =>
    \A k \in 1..(Len(sent) - 1) : sent[k + 1].counter = responses[k].counter

\* C5: every poll of a live-mode watch carries the one session value chosen
\* before the first poll, and the first poll carries counter 0.
C5_SessionFixed ==
  LiveWatch =>
    /\ session.kind = "number"
    /\ \A k \in 1..Len(sent) : sent[k].session = session
    /\ sent # <<>> => sent[1].counter = Num(0)

C5_Witness ==
  /\ LiveWatch
  /\ Len(sent) = 3
  /\ sent[3].counter # Num(0)
  /\ sent[3].session = sent[1].session

\* C6: with maxAttempts 0 or omitted watch never fails with the timeout
\* error: while every response is non-target (and neither a poll nor the
\* observer raised) it keeps polling, and it ends only by a target match or
\* by the error of a poll.
C6_UnboundedNeverTimesOut ==
  (Watching /\ options.maxAttempts \in {Omitted, Num(0)}) =>
    /\ outcome # Throw(WatchTimeout)
    /\ (NoTargetIn(responses) /\ raised = None /\ ~ObserverRaised) =>
          pc \in {"watch_await", "watch_sleep"}
    /\ (pc = "watch_done" /\ ~ObserverRaised) =>
          \/ /\ outcome.kind = "return"
             /\ responses # <<>>
             /\ FirstJobHas(responses[Len(responses)], Target)
          \/ /\ raised # None
             /\ outcome = Throw(raised)

C6_Witness ==
  /\ Watching
  /\ options.maxAttempts = Omitted
  /\ Len(responses) = MaxPolls
  /\ NoTargetIn(responses)
  /\ pc = "watch_sleep"

\* C7: once the external stop signal is raised, no further poll is issued.
C7_NoPollAfterCancel == [][cancelled => sent' = sent]_vars

----------------------------------------------------------------------------
(* Status resource *)

StatusReturned == pc = "status_done" /\ outcome.kind = "return"

\* the number of jobs a response carries: none when the field is absent,
\* one for a bare object
JobCount(st) ==
  IF st = Undefined THEN 0
  ELSE CASE st.magnets.kind = "undefined" -> 0
         [] st.magnets.kind = "array" -> Len(st.magnets.items)
         [] OTHER -> 1

\* the job field is a list or absent, never a bare object
IsCollection(st) ==
  st = Undefined \/ st.magnets.kind \in {"undefined", "array"}

\* C8: status(id) turns a bare job object into the one-element list holding
\* that object and keeps every other field; data that carries a list is
\* returned unchanged.
C8_BareObjectWrapped ==
  (StatusReturned /\ raw # Undefined) =>
    /\ raw.magnets.kind = "object" =>
          outcome.value = Data(Arr(<<raw.magnets>>), raw.counter)
    /\ raw.magnets.kind = "array" => outcome.value = raw

C8_Witness ==
  /\ StatusReturned
  /\ raw # Undefined
  /\ raw.magnets.kind = "object"
  /\ raw.counter = Num(2)
  /\ outcome.value.counter = Num(2)
  /\ outcome.value.magnets.kind = "array"

\* C9: normalizing the response with the job wrapped into [x] gives what
\* status(id) returned for the bare x, and normalizing a result of
\* status(id) again changes nothing.
C9_WrapRoundTrip ==
  StatusReturned =>
    /\ StatusNormalize(outcome.value) = outcome.value
    /\ (raw # Undefined /\ raw.magnets.kind = "object") =>
          StatusNormalize([raw EXCEPT !.magnets = Arr(<<raw.magnets>>)]) = outcome.value

C9_Witness ==
  /\ StatusReturned
  /\ raw # Undefined
  /\ raw.magnets.kind = "object"
  /\ raw.counter = Undefined
  /\ outcome.value.magnets = Arr(<<raw.magnets>>)

C11_ZeroJobsIsNormal ==
  /\ (pc = "status_done" /\ raised = None) => outcome.kind = "return"
  /\ (StatusReturned /\ JobCount(raw) = 0) =>
        /\ outcome.value = raw
        /\ IsCollection(outcome.value)
        /\ JobCount(outcome.value) = 0
  /\ (/\ Watching
      /\ responses # <<>>
      /\ JobCount(responses[Len(responses)]) = 0
      /\ Len(sent) = Len(responses)
      /\ ~ObserverRaised) =>
        \/ pc = "watch_sleep"
        \/ /\ outcome = Throw(WatchTimeout)
           /\ options.maxAttempts = Num(Len(sent))

C11_Witness ==
  /\ Watching
  /\ Len(sent) = 2
  /\ responses # <<>>
  /\ responses[1] = Data(Arr(<<>>), Undefined)
  /\ outcome = None

\* requests of the running watch that were issued and have not settled yet
Outstanding == Len(sent) - Len(responses) - (IF raised = None THEN 0 ELSE 1)

\* C13: a watch never has more than one poll outstanding, and it has one
\* exactly while it awaits the poll; a further poll is issued only from the
\* elapsed wait, one at a time, after every earlier poll has completed and
\* its response has been handed to onUpdate.
C13_OnePollInFlight ==
  /\ [](Watching => /\ Outstanding \in {0, 1}
                    /\ (Outstanding = 1) <=> (pc = "watch_await"))
  /\ [][(Watching /\ sent' # sent) =>
          /\ pc = "watch_sleep"
          /\ Len(sent') = Len(sent) + 1
          /\ Len(responses) = Len(sent)
          /\ raised = None
          /\ options.onUpdate => updates = responses]_vars

C13_Witness ==
  /\ Watching
  /\ pc = "watch_await"
  /\ Len(sent) = 3
  /\ Len(responses) = 2
  /\ options.onUpdate
  /\ Len(updates) = 2

\* the attempt budget of the running watch is used up
BudgetExhausted ==
  /\ options.maxAttempts # Omitted
  /\ options.maxAttempts.val # 0
  /\ Len(sent) >= options.maxAttempts.val

SdkErrorNames ==
  {"AllDebridError", "AuthenticationError", "LinkError", "MagnetError", "NetworkError"}

\* C12: a failure of watch that the observer did not raise is either the
\* error of a poll, which is one of the SDK's error kinds (authentication,
\* rate limit, domain, network), or the timeout error, which is a plain Error
\* of none of these kinds and is thrown only with the budget used up.
C12_TimeoutIsDistinct ==
  (Watching /\ outcome.kind = "throw" /\ ~ObserverRaised) =>
    IF raised # None
      THEN /\ outcome.error = raised
           /\ raised.isAllDebridError
           /\ raised.name \in SdkErrorNames
      ELSE /\ ~outcome.error.isAllDebridError
           /\ outcome.error.name = "Error"
           /\ outcome.error.name \notin SdkErrorNames
           /\ BudgetExhausted

C12_Witness ==
  /\ Watching
  /\ outcome.kind = "throw"
  /\ raised = None
  /\ ~outcome.error.isAllDebridError
  /\ options.maxAttempts = Num(1)
  /\ Len(responses) = 1

----------------------------------------------------------------------------
(* Transport *)

TxDone == tx.pc = "done"
TxThrew == TxDone /\ tx.outcome.kind = "throw"

\* the remote answered with an application-level error: an envelope with
\* status "error" and an error object
AppError == TxDone /\ tx.wire.kind = "json" /\ tx.wire.status = "error"
              /\ tx.wire.error # Undefined

\* the part of an error code before its first underscore ("" without one)
CodePrefix(c) == IF Len(c.parts) >= 2 THEN c.parts[1] ELSE ""

\* C15: an application-level error makes the call fail with the error kind
\* its code's prefix selects, carrying the server's code and message, and
\* never with a network error.
C15_TypedByPrefix ==
  AppError =>
    /\ tx.outcome.kind = "throw"
    /\ tx.outcome.error.code = tx.wire.error.code
    /\ tx.outcome.error.message = tx.wire.error.message
    /\ tx.outcome.error.name =
         CASE CodePrefix(tx.wire.error.code) = "AUTH" -> "AuthenticationError"
           [] CodePrefix(tx.wire.error.code) \in {"LINK", "REDIRECTOR", "STREAM", "DELAYED"} ->
                "LinkError"
           [] CodePrefix(tx.wire.error.code) = "MAGNET" -> "MagnetError"
           [] OTHER -> "AllDebridError"
    /\ tx.outcome.error.name # "NetworkError"
    /\ tx.outcome.error.statusCode = Undefined

C15_Witness ==
  /\ AppError
  /\ tx.method = "postFormData"
  /\ tx.wire.error.code = Code(<<"DELAYED", "INVALID", "ID">>)
  /\ tx.outcome.kind = "throw"
  /\ tx.outcome.error.name = "LinkError"

\* a call of status, statusList or statusLive has started
StatusOperation ==
  pc \in {"status_await", "status_done", "list_await", "list_done",
          "live_await", "live_done"}

StatusOperationDone == pc \in {"status_done", "list_done", "live_done"}

\* C17: a call of status, statusList or statusLive has issued exactly one
\* request from its start on, also once it has ended and also when the
\* request failed; the failure of that one request ends the call, which
\* throws the error the request raised.
C17_SingleRequest ==
  StatusOperation =>
    /\ Len(sent) = 1
    /\ raised # None =>
          /\ StatusOperationDone
          /\ outcome = Throw(raised)
    /\ (StatusOperationDone /\ outcome.kind = "throw") => raised # None

C17_Witness ==
  /\ pc = "list_done"
  /\ Len(sent) = 1
  /\ raised # None
  /\ outcome = Throw(raised)

\* the request itself failed: the awaited chain rejected with an error
\* object, which carries the HTTP status when there was a response
WireFailed == TxDone /\ tx.wire.kind = "error"

\* C16: whichever of get, post and postFormData was called, a 401 or 403
\* surfaces as an authentication error, a 429 as the error with code
\* RATE_LIMITED, which is none of the authentication, link, magnet and
\* network kinds, and any other failure as a network error whose statusCode
\* is the HTTP status, undefined when there was none.
C16_HttpFailuresTyped ==
  WireFailed =>
    /\ tx.outcome.kind = "throw"
    /\ tx.outcome.error.isAllDebridError
    /\ tx.wire.status \in {Num(401), Num(403)} =>
          /\ tx.outcome.error.name = "AuthenticationError"
          /\ CodePrefix(tx.outcome.error.code) = "AUTH"
    /\ tx.wire.status = Num(429) =>
          /\ tx.outcome.error.code = Code(<<"RATE", "LIMITED">>)
          /\ tx.outcome.error.name = "AllDebridError"
    /\ tx.wire.status \notin {Num(401), Num(403), Num(429)} =>
          /\ tx.outcome.error.name = "NetworkError"
          /\ tx.outcome.error.statusCode = tx.wire.status

C16_Witness ==
  /\ WireFailed
  /\ tx.method = "get"
  /\ tx.wire.status = Num(403)
  /\ tx.outcome.kind = "throw"
  /\ tx.outcome.error.name = "AuthenticationError"

\* C18: a request that failed is issued once when retry is disabled and
\* 1 + maxRetries times, the first issue and its re-issues, when retry is
\* enabled, before its error surfaces.
C18_RetriesBeforeError ==
  (TxThrew /\ WireFailed) =>
    tx.requests = IF tx.config.retry.val THEN 1 + tx.config.maxRetries.val
                                         ELSE 1

\* a command has resolved its key: its client is built or it has failed
CliResolved == cli.pc = "exited" /\ cli.command \in ClientCommands

\* a key source holds a key
Given(v) == v # Undefined /\ v.val # ""

\* the key the documented order selects, Undefined with no source
PriorityKey(flag, env, saved) ==
  IF Given(flag) THEN flag
  ELSE IF Given(env) THEN env
  ELSE IF Given(saved) THEN saved
  ELSE Undefined

\* the command works with the key the documented order selects and fails
\* with 'No API key found' when no source holds one
UsesPriorityKey ==
  LET k == PriorityKey(cli.flag, cli.env, cli.saved)
  IN IF k = Undefined
       THEN /\ cli.outcome.kind = "throw"
            /\ cli.outcome.error.message = "No API key found"
       ELSE /\ cli.outcome.kind = "return"
            /\ cli.outcome.value.apiKey = k

\* C19: a command's key is the --api-key flag when given, else the
\* environment variable when set, else the saved key, and with none of the
\* three the command fails with 'No API key found'.
C19_KeyPriority == CliResolved => UsesPriorityKey

\* without the flag the order environment variable > saved config holds
CliOrderWithoutFlag == (CliResolved /\ ~Given(cli.flag)) => UsesPriorityKey

CliOrderWithoutFlag_Witness ==
  /\ CliResolved
  /\ ~Given(cli.flag)
  /\ Given(cli.env)
  /\ Given(cli.saved)
  /\ cli.outcome.kind = "return"

\* a check response that reports activated together with a key
ReportsKey(d) ==
  /\ d.kind = "pin"
  /\ d.activated = Bool(TRUE)
  /\ d.apikey.kind = "string"
  /\ d.apikey.val # ""

PinTimedOut ==
  /\ pin.outcome.kind = "throw"
  /\ pin.raised = None

\* C20: waitForAuth issues its checks one at a time; the first response that
\* reports activated together with a key ends the call, which returns that
\* key, and no check follows it; the timeout error is thrown only when no
\* response reported a key and the elapsed time has reached timeout; a check
\* is issued only while the elapsed time is below timeout; an error raised by
\* a check ends the call, which throws that error.
C20_WaitForAuth ==
  /\ [](pin.pc \in {"sleep", "done"} =>
          /\ (pin.raised = None /\ ReportsKey(pin.last)) =>
                /\ pin.pc = "done"
                /\ pin.outcome = Return(pin.last.apikey)
          /\ (pin.pc = "done" /\ pin.outcome.kind = "return") => ReportsKey(pin.last)
          /\ PinTimedOut =>
                /\ ~ReportsKey(pin.last)
                /\ pin.elapsed >= pin.timeout
          /\ pin.raised # None =>
                /\ pin.pc = "done"
                /\ pin.outcome = Throw(pin.raised))
  /\ [][pin.checks' # pin.checks =>
          /\ pin.checks' = pin.checks + 1
          /\ pin.pc \in {"idle", "sleep"}
          /\ pin'.pc = "await"
          /\ ~ReportsKey(pin.last)
          /\ pin.raised = None
          /\ pin'.elapsed < pin'.timeout]_vars

C20_Witness ==
  /\ pin.pc = "done"
  /\ pin.checks >= 2
  /\ pin.elapsed > 0
  /\ ReportsKey(pin.last)
  /\ pin.outcome = Return(pin.last.apikey)

C20_TimeoutWitness ==
  /\ pin.pc = "done"
  /\ PinTimedOut
  /\ pin.checks >= 2
  /\ pin.elapsed >= pin.timeout

\* loop l has started and has not ended
Running(l) == loops[l].pc \in {"await", "sleep"}

\* the counter loop l sends is the counter of the last response loop l
\* received when that response carried one, and every step changes the
\* variables of one loop only
LoopCountersOwn ==
  /\ [](\A l \in LoopIds :
          (loops[l].pc = "await" /\ loops[l].attempt = 1) =>
            loops[l].body.counter = Num(0))
  /\ [][\A l \in LoopIds :
          /\ loops'[l] # loops[l] => \A k \in LoopIds \ {l} : loops'[k] = loops[k]
          /\ (loops[l].pc = "sleep" /\ loops'[l].pc = "await"
                /\ loops[l].heard # Undefined) =>
               loops'[l].body.counter = loops[l].heard]_vars

\* C14: two live-mode loops that run at the same time never send the same
\* session value, and the counter a loop sends comes from that loop's own
\* responses only.
C14_OwnSession ==
  /\ [](\A l, k \in LoopIds :
          (l # k /\ Running(l) /\ Running(k)) =>
            loops[l].body.session # loops[k].body.session)
  /\ LoopCountersOwn

LoopCountersOwn_Witness ==
  /\ \A l \in LoopIds : loops[l].pc = "await" /\ loops[l].attempt = 2
  /\ loops[1].body.counter # loops[2].body.counter
  /\ loops[1].body.counter # Num(0)

\* the running watch has a positive attempt budget and has used it up on
\* responses none of which had the target status
BudgetSpent ==
  /\ Watching
  /\ options.maxAttempts # Omitted
  /\ options.maxAttempts.val >= 1
  /\ Len(responses) = options.maxAttempts.val
  /\ NoTargetIn(responses)
  /\ ~ObserverRaised

\* C21: once the poll that uses up a positive budget has returned a
\* non-target response the watch has failed with the timeout error, without
\* a wait in between; and a wait is always followed by another poll.
C21_NoWaitBeforeTimeout ==
  /\ [](BudgetSpent => outcome = Throw(WatchTimeout))
  /\ [][(pc = "watch_sleep" /\ pc' # pc) => pc' = "watch_await"]_vars

\* the server's answer d carries a job with status s as the first job of a
\* list or as a single bare object
CarriesJob(d, s) ==
  /\ d.kind = "data"
  /\ \/ d.magnets.kind = "object" /\ d.magnets.status = s
     \/ /\ d.magnets.kind = "array"
        /\ d.magnets.items # <<>>
        /\ Head(d.magnets.items).status = s

\* the last poll of the running watch has been answered and handled
PollHandled ==
  /\ Watching
  /\ pc \in {"watch_sleep", "watch_done"}
  /\ raised = None
  /\ raw # None
  /\ ~ObserverRaised

\* C22: in live mode as in standard mode, a watch whose last answered poll
\* carried the watched job with the target status, as the first job of a
\* list or as a bare object, has resolved; and it resolves in no other case.
C22_LiveResolvesLikeStandard ==
  PollHandled =>
    (CarriesJob(raw, Target) <=> (pc = "watch_done" /\ outcome.kind = "return"))

\* the same, for standard-mode watches and for answers that are no bare object
ResolvesOnCarriedJob ==
  (PollHandled /\ (~LiveWatch \/ raw = Undefined \/ IsCollection(raw))) =>
    (CarriesJob(raw, Target) <=> (pc = "watch_done" /\ outcome.kind = "return"))

ResolvesOnCarriedJob_Witness ==
  /\ PollHandled
  /\ ~LiveWatch
  /\ raw # Undefined
  /\ ~IsCollection(raw)
  /\ outcome.kind = "return"

\* the value of `status` of the last answered poll of the running watch
LastResponse == responses[Len(responses)]

\* every poll of the running watch has been answered and handled
AllHandled ==
  /\ Watching
  /\ responses # <<>>
  /\ Len(sent) = Len(responses)
  /\ raised = None
  /\ ~ObserverRaised

\* C23: a watch has returned exactly when the first job of the response it
\* handled last has the target status, whatever the later jobs of that
\* response and the earlier responses hold; a response without a job never
\* makes it return.
C23_FirstJobDecides ==
  AllHandled =>
    /\ (outcome.kind = "return") <=> FirstJobHas(LastResponse, Target)
    /\ JobCount(LastResponse) = 0 => outcome.kind # "return"
    /\ outcome.kind # "return" => pc = "watch_sleep" \/ outcome = Throw(WatchTimeout)

C23_Witness ==
  /\ AllHandled
  /\ Len(responses) = 2
  /\ Target = "Ready"
  /\ JobCount(LastResponse) = 2
  /\ LastResponse.magnets.items[2].status = "Ready"
  /\ pc = "watch_sleep"

\* the request body b carries parameter f
Has(b, f) == f \in DOMAIN b /\ b[f] # Undefined

\* the three request modes of the status endpoint
ShapeById(b) ==
  Has(b, "id") /\ ~Has(b, "status") /\ ~Has(b, "session") /\ ~Has(b, "counter")

ShapeList(b) ==
  /\ ~Has(b, "id") /\ ~Has(b, "session") /\ ~Has(b, "counter")
  /\ b = Undefined \/ Has(b, "status")

ShapeLive(b) ==
  Has(b, "session") /\ Has(b, "counter") /\ ~Has(b, "status")

ShapesOf(b) ==
  {m \in {"id", "list", "live"} :
     \/ m = "id" /\ ShapeById(b)
     \/ m = "list" /\ ShapeList(b)
     \/ m = "live" /\ ShapeLive(b)}

\* C24: every body sent to the status endpoint has exactly one of the three
\* shapes, and it is the shape of the operation that sent it: id alone for
\* status(id), the filter alone or nothing for statusList, session and
\* counter without a filter for statusLive; a watch sends the id shape in
\* standard mode and the live shape with its id in live mode.
C24_ExclusiveShapes ==
  \A k \in 1..Len(sent) :
    /\ Cardinality(ShapesOf(sent[k])) = 1
    /\ pc \in {"status_await", "status_done"} => ShapesOf(sent[k]) = {"id"}
    /\ pc \in {"list_await", "list_done"} => ShapesOf(sent[k]) = {"list"}
    /\ pc \in {"live_await", "live_done"} => ShapesOf(sent[k]) = {"live"}
    /\ (Watching /\ ~LiveWatch) => ShapesOf(sent[k]) = {"id"}
    /\ LiveWatch => ShapesOf(sent[k]) = {"live"} /\ sent[k].id = Num(callId)

C24_Witness ==
  /\ pc = "live_done"
  /\ Len(sent) = 1
  /\ ~Has(sent[1], "id")
  /\ ShapesOf(sent[1]) = {"live"}

C24_ListWitness ==
  /\ pc = "list_done"
  /\ sent = <<Undefined>>

\* an invocation of the live status command has sent its request
LiveSent == liveCmd.pc \in {"await", "printed", "failed"}

\* the answer d carries a counter
CarriesCounter(d) == d # Undefined /\ d.counter # Undefined

Answered == TxDone /\ tx.wire.kind = "json"

\* C26: a call that was answered with an envelope returns data exactly when
\* the envelope's status is "success"; with status "error" it fails with an
\* SDK error, whether or not the envelope carries an error object.
C26_DataOnlyOnSuccess ==
  Answered =>
    /\ (tx.outcome.kind = "return") <=> (tx.wire.status = "success")
    /\ tx.wire.status = "error" =>
          /\ tx.outcome.kind = "throw"
          /\ tx.outcome.error.isAllDebridError

\* the same, for envelopes that carry an error object when their status is
\* "error"
DataOnlyOnSuccessWithErrorObject ==
  (Answered /\ (tx.wire.status = "error" => tx.wire.error # Undefined)) =>
    /\ (tx.outcome.kind = "return") <=> (tx.wire.status = "success")
    /\ tx.wire.status = "error" =>
          /\ tx.outcome.kind = "throw"
          /\ tx.outcome.error.isAllDebridError

\* C27: a watch that has ended, with the timeout error or otherwise, has
\* issued at least one poll, whatever maxAttempts was, negative values
\* included.
C27_PollsBeforeEnding ==
  (Watching /\ pc = "watch_done") => Len(sent) >= 1

\* the same, for the values of maxAttempts that are not negative
PollsBeforeEndingUnlessNegative ==
  (Watching /\ pc = "watch_done"
     /\ (options.maxAttempts = Omitted \/ options.maxAttempts.val >= 0)) =>
    Len(sent) >= 1

\* the command has handled the answer to every poll it sent
CmdHandled ==
  /\ pc \in {"watch_sleep", "exited"}
  /\ responses # <<>>
  /\ raised = None

\* the first job of the answer handled last, Undefined when there is none
CmdFirstJob ==
  IF LastResponse = Undefined THEN Undefined
  ELSE IF LastResponse.magnets.kind = "array" /\ LastResponse.magnets.items # <<>>
    THEN Head(LastResponse.magnets.items)
    ELSE Undefined

JobReady(j) == j # Undefined /\ (j.status = "Ready" \/ j.statusCode = 4)
JobFailed(j) == j # Undefined /\ ~JobReady(j) /\ j.status = "Error"
JobExpired(j) == j # Undefined /\ ~JobReady(j) /\ j.status = "Expired"
JobMissing(j) == j = Undefined

\* C28: the command has exited with 0 once a polled first job is Ready
\* (status 'Ready' or statusCode 4), with 1 once it is 'Error' or a poll has
\* raised, and it has stopped once the job is 'Expired' or is not found; it
\* ends in no other way.
C28_WatchCmdStops ==
  /\ CmdHandled =>
       /\ JobReady(CmdFirstJob) => (pc = "exited" /\ outcome = Exit(0))
       /\ JobFailed(CmdFirstJob) => (pc = "exited" /\ outcome = Exit(1))
       /\ (JobExpired(CmdFirstJob) \/ JobMissing(CmdFirstJob)) => pc = "exited"
       /\ pc = "exited" => ~(CmdFirstJob # Undefined /\ CmdFirstJob.status = "Downloading")
  /\ (pc = "exited" /\ raised # None) => outcome = Exit(1)

\* the same, without the two cases of an expired job and of a job not found
WatchCmdStopsOnReadyOrError ==
  /\ CmdHandled =>
       /\ JobReady(CmdFirstJob) => (pc = "exited" /\ outcome = Exit(0))
       /\ JobFailed(CmdFirstJob) => (pc = "exited" /\ outcome = Exit(1))
       /\ pc = "exited" => (JobReady(CmdFirstJob) \/ JobFailed(CmdFirstJob))
  /\ (pc = "exited" /\ raised # None) => outcome = Exit(1)

\* C29: when the observer has raised on a response, the watch has failed
\* with the observer's exception, the observer was handed that response, no
\* poll has followed it or follows later, the failure stands also when that
\* response has the target status, and in live mode the loop's counter is
\* already that response's counter when it carries one.
C29_ObserverRaiseEndsWatch ==
  /\ []((Watching /\ ObserverRaised) =>
          /\ pc = "watch_done"
          /\ options.onUpdate
          /\ responses # <<>>
          /\ updates = responses
          /\ Len(sent) = Len(responses)
          /\ outcome.kind = "throw"
          /\ (LiveWatch /\ CarriesCounter(LastResponse)) =>
                counter = LastResponse.counter.val)
  /\ [][(Watching /\ ObserverRaised) => (sent' = sent /\ outcome' = outcome)]_vars

C29_Witness ==
  /\ LiveWatch
  /\ ObserverRaised
  /\ Len(sent) = 2
  /\ FirstJobHas(LastResponse, Target)
  /\ CarriesCounter(LastResponse)
  /\ counter = 2
  /\ responses[1].counter = Num(1)

\* a process has ended whose command was c
CliEnded(c) == cli.pc = "exited" /\ cli.command = c

\* the logout that has ended found a key and was confirmed
LoggedOut ==
  /\ CliEnded("auth logout")
  /\ cli.outcome = Return(Str("Successfully logged out"))

\* an `auth status` has ended that followed a confirmed logout in the same
\* environment
StatusAfterLogout ==
  /\ CliEnded("auth status")
  /\ cli.last # None
  /\ cli.last.command = "auth logout"
  /\ cli.last.outcome = Return(Str("Successfully logged out"))
  /\ cli.last.env = cli.env

\* a login has ended with an error
LoginFailed == CliEnded("auth login") /\ cli.outcome.kind = "throw"

\* Config.hasApiKey() as the claims read it: some source holds a key
Authenticated == Given(cli.env) \/ Given(cli.saved)

\* C30 as stated: after a confirmed logout no key is left, whatever the
\* saved config and the environment variable held, and a following
\* `auth status` reports 'Not authenticated'; a failed login leaves the
\* saved key unchanged.
C30_LogoutUnauthenticates ==
  /\ LoggedOut => ~Authenticated
  /\ StatusAfterLogout => cli.outcome = Return(Str("Not authenticated"))
  /\ LoginFailed => cli.saved = cli.before

\* C30 amended: a confirmed logout clears the saved key; the CLI is then
\* unauthenticated, and a following `auth status` in the same environment
\* reports 'Not authenticated', exactly when ALLDEBRID_API_KEY holds no key;
\* a failed login leaves the saved key unchanged.
C30_LogoutClearsSavedKey ==
  /\ LoggedOut =>
       /\ ~Given(cli.saved)
       /\ Authenticated <=> Given(cli.env)
  /\ StatusAfterLogout =>
       /\ ~Given(cli.saved)
       /\ (cli.outcome = Return(Str("Not authenticated"))) <=> ~Given(cli.env)
  /\ LoginFailed => cli.saved = cli.before

C30_Witness ==
  /\ StatusAfterLogout
  /\ Given(cli.env)
  /\ cli.outcome = Return(Str("Authenticated"))

C30_LoginWitness ==
  /\ LoginFailed
  /\ Given(cli.before)
  /\ cli.saved = cli.before

TypeOK ==
  /\ pc \in {"idle", "status_await", "status_done", "list_await", "list_done",
            "live_await", "live_done", "watch_await", "watch_sleep", "watch_done"}
  /\ attempt \in 0..(MaxPolls + MaxBudget)
  /\ Len(sent) <= MaxPolls + MaxBudget

====
